---- MODULE Spec2Model ----
(***************************************************************************)
(* Model of the ABCI adapter of nomic (chain/abci_server.rs): the five     *)
(* lifecycle callbacks of `impl Application for App` acting on one         *)
(* key-value store, the height ledger and the validator ledger.            *)
(*                                                                         *)
(* Numbers.  A 64-bit word is kept at its full width as four 16-bit limbs, *)
(* most significant first (u64).  A signed header height or genesis power  *)
(* (i64) is a sign and a magnitude, so that `as u64` / `as i64` and        *)
(* to_be_bytes / from_be_bytes are computed, not assumed.                  *)
(*                                                                         *)
(* Store.  start() hands one MerkStore to orga's ABCIStateMachine, which   *)
(* chooses the store handle each callback receives.  Here every callback   *)
(* acts on the same store; a separate view for CheckTx, if the driver      *)
(* keeps one, is outside this module.                                      *)
(***************************************************************************)
EXTENDS Integers, Sequences, FiniteSets, TLC

(***************************************************************************)
(* Bounds of the model.                                                    *)
(***************************************************************************)
\* longest genesis validator list handed to InitChain
MaxGenesisLen == 2
\* header heights 0..MaxHeight (and one negative height) are offered
MaxHeight == 1

(***************************************************************************)
(* 64-bit words.                                                           *)
(***************************************************************************)
LimbBase == 256 * 256

\* the u64 whose value is the small natural n
U64Of(n) == <<0, 0, 0, n>>

\* the natural number of a u64 that fits one limb; -1 when it does not
U64ToNat(u) == IF u[1] = 0 /\ u[2] = 0 /\ u[3] = 0 THEN u[4] ELSE -1

\* a < b as unsigned 64-bit numbers
U64Less(a, b) ==
    \E i \in 1..4 : a[i] < b[i] /\ \A j \in 1..(i - 1) : a[j] = b[j]

U64Not(u) == [i \in 1..4 |-> LimbBase - 1 - u[i]]

\* u + 1 mod 2^64
U64Inc(u) ==
    IF u[4] + 1 < LimbBase THEN <<u[1], u[2], u[3], u[4] + 1>>
    ELSE IF u[3] + 1 < LimbBase THEN <<u[1], u[2], u[3] + 1, 0>>
    ELSE IF u[2] + 1 < LimbBase THEN <<u[1], u[2] + 1, 0, 0>>
    ELSE <<(u[1] + 1) % LimbBase, 0, 0, 0>>

\* 2^64 - u mod 2^64 (two's complement)
U64Neg(u) == U64Inc(U64Not(u))

\* an i64 is [neg, mag]: the number -mag when neg, mag otherwise
I64Of(n) == [neg |-> FALSE, mag |-> U64Of(n)]
I64Minus(n) == [neg |-> TRUE, mag |-> U64Of(n)]

\* `x as u64` for x : i64
AsU64(x) == IF x.neg THEN U64Neg(x.mag) ELSE x.mag

\* `u as i64` for u : u64
AsI64(u) ==
    IF u[1] >= LimbBase \div 2 THEN [neg |-> TRUE, mag |-> U64Neg(u)]
    ELSE [neg |-> FALSE, mag |-> u]

\* u64::to_be_bytes
ToBeBytes(u) ==
    <<u[1] \div 256, u[1] % 256, u[2] \div 256, u[2] % 256,
      u[3] \div 256, u[3] % 256, u[4] \div 256, u[4] % 256>>

\* variant of FromBeBytes: the first byte is taken as the least significant
FromBeBytesReversed(b) ==
    <<b[8] * 256 + b[7], b[6] * 256 + b[5], b[4] * 256 + b[3], b[2] * 256 + b[1]>>

\* u64::from_be_bytes on an 8-byte array
FromBeBytes(b) ==
    <<b[1] * 256 + b[2], b[3] * 256 + b[4], b[5] * 256 + b[6], b[7] * 256 + b[8]>>

\* variant of I64ToBeBytes: least significant byte first
I64ToLeBytes(x) ==
    LET u == AsU64(x)
    IN <<u[4] % 256, u[4] \div 256, u[3] % 256, u[3] \div 256,
         u[2] % 256, u[2] \div 256, u[1] % 256, u[1] \div 256>>

\* i64::to_be_bytes: the two's-complement bits, most significant byte first
I64ToBeBytes(x) == ToBeBytes(AsU64(x))

\* the same eight bytes, most significant first
ToLeBytesReversed(u) ==
    <<u[1] \div 256, u[1] % 256, u[2] \div 256, u[2] % 256,
      u[3] \div 256, u[3] % 256, u[4] \div 256, u[4] % 256>>

\* bincode's fixed-width little-endian u64
ToLeBytes(u) ==
    <<u[4] % 256, u[4] \div 256, u[3] % 256, u[3] \div 256,
      u[2] % 256, u[2] \div 256, u[1] % 256, u[1] \div 256>>
FromLeBytes(b) ==
    <<b[8] * 256 + b[7], b[6] * 256 + b[5], b[4] * 256 + b[3], b[2] * 256 + b[1]>>

(***************************************************************************)
(* BTreeMap<Vec<u8>, u64>: a function from key bytes to power; iteration   *)
(* and serialization go in the Ord order of Vec<u8> (lexicographic).       *)
(***************************************************************************)
BytesLess(a, b) ==
    \/ \E i \in 1..Len(a) :
          /\ i <= Len(b)
          /\ a[i] < b[i]
          /\ \A j \in 1..(i - 1) : a[j] = b[j]
    \/ /\ Len(a) < Len(b)
       /\ \A j \in 1..Len(a) : a[j] = b[j]

RECURSIVE SortedKeys(_)
SortedKeys(S) ==
    IF S = {} THEN <<>>
    ELSE LET m == CHOOSE k \in S : \A o \in S \ {k} : BytesLess(k, o)
         IN <<m>> \o SortedKeys(S \ {m})

EmptyMap == <<>>

\* BTreeMap::insert
MapInsert(m, k, p) == [x \in (DOMAIN m) \cup {k} |-> IF x = k THEN p ELSE m[x]]

RECURSIVE SerializeEntries(_, _)
SerializeEntries(m, keys) ==
    IF keys = <<>> THEN <<>>
    ELSE LET k == Head(keys)
         IN ToLeBytes(U64Of(Len(k))) \o k \o ToLeBytes(m[k])
              \o SerializeEntries(m, Tail(keys))

\* bincode::serialize(&validators)
Serialize(m) ==
    ToLeBytes(U64Of(Cardinality(DOMAIN m))) \o SerializeEntries(m, SortedKeys(DOMAIN m))

RECURSIVE DeserializeEntries(_, _, _)
DeserializeEntries(bytes, n, acc) ==
    IF n = 0 THEN [ok |-> TRUE, map |-> acc]
    ELSE IF Len(bytes) < 8 THEN [ok |-> FALSE, map |-> EmptyMap]
    ELSE LET klen == U64ToNat(FromLeBytes(SubSeq(bytes, 1, 8)))
         IN IF klen < 0 \/ Len(bytes) < 8 + klen + 8
            THEN [ok |-> FALSE, map |-> EmptyMap]
            ELSE LET k == SubSeq(bytes, 9, 8 + klen)
                     p == FromLeBytes(SubSeq(bytes, 9 + klen, 16 + klen))
                 IN DeserializeEntries(SubSeq(bytes, 17 + klen, Len(bytes)),
                                       n - 1, MapInsert(acc, k, p))

\* bincode::deserialize::<BTreeMap<Vec<u8>, u64>>
Deserialize(bytes) ==
    IF Len(bytes) < 8 THEN [ok |-> FALSE, map |-> EmptyMap]
    ELSE LET n == U64ToNat(FromLeBytes(SubSeq(bytes, 1, 8)))
         IN IF n < 0 THEN [ok |-> FALSE, map |-> EmptyMap]
            ELSE DeserializeEntries(SubSeq(bytes, 9, Len(bytes)), n, EmptyMap)

(***************************************************************************)
(* The store handed to every callback (orga::Store): get / put by key.     *)
(* An entry is absent or holds a byte string.  A store operation can       *)
(* return Err; `fail` says whether this one does.                          *)
(***************************************************************************)
StoreKeys == {"height", "validators", "engine"}

None == [some |-> FALSE, val |-> <<>>]
Some(b) == [some |-> TRUE, val |-> b]

EmptyStore == [k \in StoreKeys |-> None]

\* store.get(key): Result<Option<Vec<u8>>>
StoreGet(store, key, fail) ==
    IF fail THEN [ok |-> FALSE, value |-> None]
    ELSE [ok |-> TRUE, value |-> store[key]]

\* store.put(key, value): Result<()>
StorePut(store, key, value, fail) ==
    IF fail THEN [ok |-> FALSE, store |-> store]
    ELSE [ok |-> TRUE, store |-> [store EXCEPT ![key] = Some(value)]]

\* one adapter put, as recorded in the log of a call
WriteRec(key, value, ok) == [key |-> key, value |-> value, ok |-> ok]

(***************************************************************************)
(* Inputs offered by the consensus driver.                                 *)
(***************************************************************************)
\* validator public keys: <<1, 2>> sorts before <<2>>, and is longer
PubKeys == {<<2>>, <<1, 2>>}

\* genesis powers (i64 in the protocol message)
GenesisPowers == {I64Of(10), I64Minus(1)}

\* powers the execution engine sets (u64): 0 asks for removal
EnginePowers == {U64Of(0)}

\* header heights (i64)
HeaderHeights == {I64Of(n) : n \in 0..MaxHeight} \cup {I64Minus(1)}

GenesisEntries == [pub_key : PubKeys, power : GenesisPowers]

RECURSIVE SeqsUpTo(_, _)
SeqsUpTo(S, n) ==
    IF n = 0 THEN {<<>>}
    ELSE LET shorter == SeqsUpTo(S, n - 1)
         IN shorter \cup {Append(s, x) : s \in {t \in shorter : Len(t) = n - 1}, x \in S}

GenesisLists == SeqsUpTo(GenesisEntries, MaxGenesisLen)

\* raw transaction bytes offered to CheckTx / DeliverTx ('{' is 123, '}'
\* is 125): nothing, a truncated document, a garbled one, a whole one
RawTxs == {<<>>, <<123>>, <<125, 123>>, <<123, 125>>}

(***************************************************************************)
(* serde_json::from_slice::<Transaction>: the Transaction type lives in    *)
(* core::primitives::transaction; here a byte string decodes when it is a  *)
(* braced document, and the transaction is what the braces enclose.        *)
(***************************************************************************)
DecodeTx(raw) ==
    IF Len(raw) >= 2 /\ raw[1] = 123 /\ raw[Len(raw)] = 125
    THEN [ok |-> TRUE, tx |-> SubSeq(raw, 2, Len(raw) - 1)]
    ELSE [ok |-> FALSE, tx |-> <<>>]

(***************************************************************************)
(* The execution engine (state_machine::{initialize, run}).  It is handed  *)
(* the store and the in-memory validator set and may change both in place, *)
(* also when it fails.  It owns the "engine" entry; the height and the     *)
(* validator entries are the adapter's.  `e` is what the engine does in    *)
(* one invocation.                                                         *)
(***************************************************************************)
NoMut == [kind |-> "none", key |-> <<>>, power |-> U64Of(0)]
SetMut(k, p) == [kind |-> "set", key |-> k, power |-> p]
EngineMuts == {NoMut} \cup {SetMut(k, p) : k \in PubKeys, p \in EnginePowers}
EngineChoices == [ok : BOOLEAN, vmut : EngineMuts, put : BOOLEAN]
\* initialize is not handed the validator set
InitializeChoices == {e \in EngineChoices : e.vmut = NoMut}

ApplyMut(validators, vmut) ==
    IF vmut.kind = "set" THEN MapInsert(validators, vmut.key, vmut.power)
    ELSE validators

TransactionAction(tx) == [kind |-> "Transaction", tx |-> tx, height |-> I64Of(0)]
BeginBlockAction(header) == [kind |-> "BeginBlock", tx |-> <<>>, height |-> header.height]
NoAction == [kind |-> "none", tx |-> <<>>, height |-> I64Of(0)]

\* run(&mut store, action, &mut validators, height)
run(store, action, validators, height, e) ==
    [ok |-> e.ok,
     validators |-> ApplyMut(validators, e.vmut),
     store |-> IF e.put THEN [store EXCEPT !["engine"] = Some(<<1>>)] ELSE store]

\* initialize(&mut store)
initialize(store, e) ==
    [ok |-> e.ok,
     store |-> IF e.put THEN [store EXCEPT !["engine"] = Some(<<1>>)] ELSE store]

\* one engine invocation, as recorded in the log of a call
RunRec(action, vin, height, r) ==
    [fn |-> "run", action |-> action, validators |-> vin, height |-> height,
     ok |-> r.ok, out |-> r.validators]
InitializeRec(r) ==
    [fn |-> "initialize", action |-> NoAction, validators |-> EmptyMap,
     height |-> U64Of(0), ok |-> r.ok, out |-> EmptyMap]

(***************************************************************************)
(* Height ledger and validator ledger.                                     *)
(***************************************************************************)
HeightLen == 8

\* variant of read_height: an absent entry reads as height 0, a short one
\* is padded with zero bytes, a long one is cut
read_height_lenient(store, fail) ==
    LET g == StoreGet(store, "height", fail)
        padded == IF g.value.some THEN g.value.val \o <<0, 0, 0, 0, 0, 0, 0, 0>>
                  ELSE <<0, 0, 0, 0, 0, 0, 0, 0>>
    IN IF ~g.ok THEN [status |-> "err", height |-> U64Of(0)]
       ELSE [status |-> "ok", height |-> FromBeBytes(SubSeq(padded, 1, 8))]

\* read_height: `?` on the get, unwrap() on the Option, copy_from_slice
\* into [u8; 8] (panics unless the slice is 8 bytes long)
read_height(store, fail) ==
    LET g == StoreGet(store, "height", fail)
    IN IF ~g.ok THEN [status |-> "err", height |-> U64Of(0)]
       ELSE IF ~g.value.some THEN [status |-> "panic", height |-> U64Of(0)]
       ELSE IF Len(g.value.val) # HeightLen THEN [status |-> "panic", height |-> U64Of(0)]
       ELSE [status |-> "ok", height |-> FromBeBytes(g.value.val)]

\* variant of write_validators: the put goes to the other ledger key
write_validators_wrong_key(store, validators, fail) ==
    LET bytes == Serialize(validators)
        p == StorePut(store, "height", bytes, fail)
    IN [ok |-> p.ok, store |-> p.store, write |-> WriteRec("height", bytes, p.ok)]

\* write_validators: serialize, then put under "validators"
write_validators(store, validators, fail) ==
    LET bytes == Serialize(validators)
        p == StorePut(store, "validators", bytes, fail)
    IN [ok |-> p.ok, store |-> p.store, write |-> WriteRec("validators", bytes, p.ok)]

\* read_validators: every failure is an expect() panic
read_validators(store, fail) ==
    LET g == StoreGet(store, "validators", fail)
    IN IF ~g.ok THEN [status |-> "panic", validators |-> EmptyMap]
       ELSE IF ~g.value.some THEN [status |-> "panic", validators |-> EmptyMap]
       ELSE LET d == Deserialize(g.value.val)
            IN IF ~d.ok THEN [status |-> "panic", validators |-> EmptyMap]
               ELSE [status |-> "ok", validators |-> d.map]

(***************************************************************************)
(* The callbacks of `impl Application for App`.  Each is a function of the *)
(* store it is handed, its request, what the engine does (e) and which of  *)
(* its store operations fails (io: the 1-based index of the failing        *)
(* operation, 0 for none).  The result is the store after the call, the    *)
(* response, the puts the adapter made and the engine invocations.         *)
(***************************************************************************)
OkResp == [status |-> "ok", data |-> <<>>, updates |-> <<>>]
ErrResp == [status |-> "err", data |-> <<>>, updates |-> <<>>]
PanicResp == [status |-> "panic", data |-> <<>>, updates |-> <<>>]

\* `read` is what read_height returned to the callback, when it returned
Outcome(store, resp, writes, engine, read) ==
    [store |-> store, resp |-> resp, writes |-> writes, engine |-> engine,
     read |-> read]

NoRead == [some |-> FALSE, val |-> U64Of(0)]
HeightRead(rh) == IF rh.status = "ok" THEN [some |-> TRUE, val |-> rh.height] ELSE NoRead

RECURSIVE GenesisMapFirstWins(_, _)
\* variant of GenesisMap: an entry whose key is already present is skipped
GenesisMapFirstWins(list, acc) ==
    IF list = <<>> THEN acc
    ELSE IF Head(list).pub_key \in DOMAIN acc
         THEN GenesisMapFirstWins(Tail(list), acc)
         ELSE GenesisMapFirstWins(Tail(list),
                  MapInsert(acc, Head(list).pub_key, AsU64(Head(list).power)))

RECURSIVE GenesisMap(_, _)
\* the loop of init_chain: insert every entry, power `as u64`
GenesisMap(list, acc) ==
    IF list = <<>> THEN acc
    ELSE GenesisMap(Tail(list),
                    MapInsert(acc, Head(list).pub_key, AsU64(Head(list).power)))

\* variant of init_chain: the engine is initialized first, and the genesis
\* set is written once that has succeeded
init_chain_initialize_first(store, req_validators, e, io) ==
    LET validators == GenesisMap(req_validators, EmptyMap)
        r == initialize(store, e)
    IN IF ~r.ok THEN Outcome(r.store, ErrResp, <<>>, <<InitializeRec(r)>>, NoRead)
       ELSE LET w == write_validators(r.store, validators, io = 1)
            IN IF ~w.ok THEN Outcome(w.store, ErrResp, <<w.write>>, <<InitializeRec(r)>>, NoRead)
               ELSE Outcome(w.store, OkResp, <<w.write>>, <<InitializeRec(r)>>, NoRead)

\* variant of init_chain: an empty genesis set is not written
init_chain_skip_empty(store, req_validators, e, io) ==
    LET validators == GenesisMap(req_validators, EmptyMap)
        w == write_validators(store, validators, io = 1)
    IN IF validators = EmptyMap
       THEN LET r == initialize(store, e)
            IN Outcome(r.store, IF r.ok THEN OkResp ELSE ErrResp, <<>>,
                       <<InitializeRec(r)>>, NoRead)
       ELSE IF ~w.ok THEN Outcome(w.store, ErrResp, <<w.write>>, <<>>, NoRead)
       ELSE LET r == initialize(w.store, e)
            IN IF ~r.ok THEN Outcome(r.store, ErrResp, <<w.write>>, <<InitializeRec(r)>>, NoRead)
               ELSE Outcome(r.store, OkResp, <<w.write>>, <<InitializeRec(r)>>, NoRead)

init_chain(store, req_validators, e, io) ==
    LET validators == GenesisMap(req_validators, EmptyMap)
        w == write_validators(store, validators, io = 1)
    IN IF ~w.ok THEN Outcome(w.store, ErrResp, <<w.write>>, <<>>, NoRead)
       ELSE LET r == initialize(w.store, e)
            IN IF ~r.ok THEN Outcome(r.store, ErrResp, <<w.write>>, <<InitializeRec(r)>>, NoRead)
               ELSE Outcome(r.store, OkResp, <<w.write>>, <<InitializeRec(r)>>, NoRead)

\* variant of check_tx: bytes that do not decode run as the default
\* transaction
check_tx_default_tx(store, req_tx, e, io) ==
    LET tx == DecodeTx(req_tx)
        rv == read_validators(store, io = 1)
        rh == read_height(store, io = 2)
    IN IF rv.status = "panic" THEN Outcome(store, PanicResp, <<>>, <<>>, NoRead)
       ELSE IF rh.status = "panic" THEN Outcome(store, PanicResp, <<>>, <<>>, HeightRead(rh))
       ELSE IF rh.status = "err" THEN Outcome(store, ErrResp, <<>>, <<>>, HeightRead(rh))
       ELSE LET action == TransactionAction(tx.tx)
                r == run(store, action, rv.validators, rh.height, e)
                log == <<RunRec(action, rv.validators, rh.height, r)>>
            IN IF ~r.ok THEN Outcome(r.store, ErrResp, <<>>, log, HeightRead(rh))
               ELSE LET w == write_validators(r.store, r.validators, io = 3)
                    IN IF ~w.ok THEN Outcome(w.store, ErrResp, <<w.write>>, log, HeightRead(rh))
                       ELSE Outcome(w.store, OkResp, <<w.write>>, log, HeightRead(rh))

\* variant of check_tx: the validator set is written back before the
\* result of the run is looked at
check_tx_persist(store, req_tx, e, io) ==
    LET tx == DecodeTx(req_tx)
        rv == read_validators(store, io = 1)
        rh == read_height(store, io = 2)
    IN IF rv.status = "panic" THEN Outcome(store, PanicResp, <<>>, <<>>, NoRead)
       ELSE IF rh.status = "panic" THEN Outcome(store, PanicResp, <<>>, <<>>, HeightRead(rh))
       ELSE IF rh.status = "err" THEN Outcome(store, ErrResp, <<>>, <<>>, HeightRead(rh))
       ELSE IF ~tx.ok THEN Outcome(store, ErrResp, <<>>, <<>>, HeightRead(rh))
       ELSE LET action == TransactionAction(tx.tx)
                r == run(store, action, rv.validators, rh.height, e)
                log == <<RunRec(action, rv.validators, rh.height, r)>>
                w == write_validators(r.store, r.validators, io = 3)
            IN IF ~w.ok THEN Outcome(w.store, ErrResp, <<w.write>>, log, HeightRead(rh))
               ELSE IF ~r.ok THEN Outcome(w.store, ErrResp, <<w.write>>, log, HeightRead(rh))
               ELSE Outcome(w.store, OkResp, <<w.write>>, log, HeightRead(rh))

\* variant of check_tx: the set is not written back when the engine left
\* it as it was
check_tx_skip_unchanged(store, req_tx, e, io) ==
    LET tx == DecodeTx(req_tx)
        rv == read_validators(store, io = 1)
        rh == read_height(store, io = 2)
    IN IF rv.status = "panic" THEN Outcome(store, PanicResp, <<>>, <<>>, NoRead)
       ELSE IF rh.status = "panic" THEN Outcome(store, PanicResp, <<>>, <<>>, HeightRead(rh))
       ELSE IF rh.status = "err" THEN Outcome(store, ErrResp, <<>>, <<>>, HeightRead(rh))
       ELSE IF ~tx.ok THEN Outcome(store, ErrResp, <<>>, <<>>, HeightRead(rh))
       ELSE LET action == TransactionAction(tx.tx)
                r == run(store, action, rv.validators, rh.height, e)
                log == <<RunRec(action, rv.validators, rh.height, r)>>
            IN IF ~r.ok THEN Outcome(r.store, ErrResp, <<>>, log, HeightRead(rh))
               ELSE IF r.validators = rv.validators
                    THEN Outcome(r.store, OkResp, <<>>, log, HeightRead(rh))
               ELSE LET w == write_validators(r.store, r.validators, io = 3)
                    IN IF ~w.ok THEN Outcome(w.store, ErrResp, <<w.write>>, log, HeightRead(rh))
                       ELSE Outcome(w.store, OkResp, <<w.write>>, log, HeightRead(rh))

check_tx(store, req_tx, e, io) ==
    LET tx == DecodeTx(req_tx)
        rv == read_validators(store, io = 1)
        rh == read_height(store, io = 2)
    IN IF rv.status = "panic" THEN Outcome(store, PanicResp, <<>>, <<>>, NoRead)
       ELSE IF rh.status = "panic" THEN Outcome(store, PanicResp, <<>>, <<>>, HeightRead(rh))
       ELSE IF rh.status = "err" THEN Outcome(store, ErrResp, <<>>, <<>>, HeightRead(rh))
       ELSE IF ~tx.ok THEN Outcome(store, ErrResp, <<>>, <<>>, HeightRead(rh))
       ELSE LET action == TransactionAction(tx.tx)
                r == run(store, action, rv.validators, rh.height, e)
                log == <<RunRec(action, rv.validators, rh.height, r)>>
            IN IF ~r.ok THEN Outcome(r.store, ErrResp, <<>>, log, HeightRead(rh))
               ELSE LET w == write_validators(r.store, r.validators, io = 3)
                    IN IF ~w.ok THEN Outcome(w.store, ErrResp, <<w.write>>, log, HeightRead(rh))
                       ELSE Outcome(w.store, OkResp, <<w.write>>, log, HeightRead(rh))

\* variant of deliver_tx: the set read at the start is written back
deliver_tx_stale(store, req_tx, e, io) ==
    LET tx == DecodeTx(req_tx)
        rv == read_validators(store, io = 1)
        rh == read_height(store, io = 2)
    IN IF rv.status = "panic" THEN Outcome(store, PanicResp, <<>>, <<>>, NoRead)
       ELSE IF rh.status = "panic" THEN Outcome(store, PanicResp, <<>>, <<>>, HeightRead(rh))
       ELSE IF rh.status = "err" THEN Outcome(store, ErrResp, <<>>, <<>>, HeightRead(rh))
       ELSE IF ~tx.ok THEN Outcome(store, ErrResp, <<>>, <<>>, HeightRead(rh))
       ELSE LET action == TransactionAction(tx.tx)
                r == run(store, action, rv.validators, rh.height, e)
                log == <<RunRec(action, rv.validators, rh.height, r)>>
            IN IF ~r.ok THEN Outcome(r.store, ErrResp, <<>>, log, HeightRead(rh))
               ELSE LET w == write_validators(r.store, rv.validators, io = 3)
                    IN IF ~w.ok THEN Outcome(w.store, ErrResp, <<w.write>>, log, HeightRead(rh))
                       ELSE Outcome(w.store, OkResp, <<w.write>>, log, HeightRead(rh))

deliver_tx(store, req_tx, e, io) ==
    LET tx == DecodeTx(req_tx)
        rv == read_validators(store, io = 1)
        rh == read_height(store, io = 2)
    IN IF rv.status = "panic" THEN Outcome(store, PanicResp, <<>>, <<>>, NoRead)
       ELSE IF rh.status = "panic" THEN Outcome(store, PanicResp, <<>>, <<>>, HeightRead(rh))
       ELSE IF rh.status = "err" THEN Outcome(store, ErrResp, <<>>, <<>>, HeightRead(rh))
       ELSE IF ~tx.ok THEN Outcome(store, ErrResp, <<>>, <<>>, HeightRead(rh))
       ELSE LET action == TransactionAction(tx.tx)
                r == run(store, action, rv.validators, rh.height, e)
                log == <<RunRec(action, rv.validators, rh.height, r)>>
            IN IF ~r.ok THEN Outcome(r.store, ErrResp, <<>>, log, HeightRead(rh))
               ELSE LET w == write_validators(r.store, r.validators, io = 3)
                    IN IF ~w.ok THEN Outcome(w.store, ErrResp, <<w.write>>, log, HeightRead(rh))
                       ELSE Outcome(w.store, OkResp, <<w.write>>, log, HeightRead(rh))

\* variant of begin_block: the height stored is one less than the header's
begin_block_pred(store, header, e, io) ==
    LET height == header.height
        height_bytes == ToBeBytes(U64Not(U64Inc(U64Not(AsU64(height)))))
        p == StorePut(store, "height", height_bytes, io = 1)
        hw == WriteRec("height", height_bytes, p.ok)
    IN IF ~p.ok THEN Outcome(p.store, ErrResp, <<hw>>, <<>>, NoRead)
       ELSE LET action == BeginBlockAction(header)
                rv == read_validators(p.store, io = 2)
            IN IF rv.status = "panic" THEN Outcome(p.store, PanicResp, <<hw>>, <<>>, NoRead)
               ELSE LET r == run(p.store, action, rv.validators, AsU64(height), e)
                        log == <<RunRec(action, rv.validators, AsU64(height), r)>>
                    IN IF ~r.ok THEN Outcome(r.store, ErrResp, <<hw>>, log, NoRead)
                       ELSE LET w == write_validators(r.store, r.validators, io = 3)
                            IN IF ~w.ok THEN Outcome(w.store, ErrResp, <<hw, w.write>>, log, NoRead)
                               ELSE Outcome(w.store, OkResp, <<hw, w.write>>, log, NoRead)

\* variant of begin_block: the engine is run first, and the height is put
\* together with the validator set once the run has succeeded
begin_block_height_last(store, header, e, io) ==
    LET height == header.height
        height_bytes == I64ToBeBytes(height)
        action == BeginBlockAction(header)
        rv == read_validators(store, io = 2)
    IN IF rv.status = "panic" THEN Outcome(store, PanicResp, <<>>, <<>>, NoRead)
       ELSE LET r == run(store, action, rv.validators, AsU64(height), e)
                log == <<RunRec(action, rv.validators, AsU64(height), r)>>
            IN IF ~r.ok THEN Outcome(r.store, ErrResp, <<>>, log, NoRead)
               ELSE LET p == StorePut(r.store, "height", height_bytes, io = 1)
                        hw == WriteRec("height", height_bytes, p.ok)
                    IN IF ~p.ok THEN Outcome(p.store, ErrResp, <<hw>>, log, NoRead)
                       ELSE LET w == write_validators(p.store, r.validators, io = 3)
                            IN IF ~w.ok THEN Outcome(w.store, ErrResp, <<hw, w.write>>, log, NoRead)
                               ELSE Outcome(w.store, OkResp, <<hw, w.write>>, log, NoRead)

begin_block(store, header, e, io) ==
    LET height == header.height
        height_bytes == I64ToBeBytes(height)
        p == StorePut(store, "height", height_bytes, io = 1)
        hw == WriteRec("height", height_bytes, p.ok)
    IN IF ~p.ok THEN Outcome(p.store, ErrResp, <<hw>>, <<>>, NoRead)
       ELSE LET action == BeginBlockAction(header)
                rv == read_validators(p.store, io = 2)
            IN IF rv.status = "panic" THEN Outcome(p.store, PanicResp, <<hw>>, <<>>, NoRead)
               ELSE LET r == run(p.store, action, rv.validators, AsU64(height), e)
                        log == <<RunRec(action, rv.validators, AsU64(height), r)>>
                    IN IF ~r.ok THEN Outcome(r.store, ErrResp, <<hw>>, log, NoRead)
                       ELSE LET w == write_validators(r.store, r.validators, io = 3)
                            IN IF ~w.ok THEN Outcome(w.store, ErrResp, <<hw, w.write>>, log, NoRead)
                               ELSE Outcome(w.store, OkResp, <<hw, w.write>>, log, NoRead)

KeyType == "secp256k1"

ValidatorUpdate(pub_key_bytes, power) ==
    [pub_key |-> [data |-> pub_key_bytes, type |-> KeyType], power |-> AsI64(power)]

\* the loop of end_block over the map, in BTreeMap iteration order
ValidatorUpdates(validators) ==
    LET keys == SortedKeys(DOMAIN validators)
    IN [i \in 1..Len(keys) |-> ValidatorUpdate(keys[i], validators[keys[i]])]

\* variant of end_block: the set is emptied once it has been reported
end_block_drain(store, io) ==
    LET rv == read_validators(store, io = 1)
    IN IF rv.status = "panic" THEN Outcome(store, PanicResp, <<>>, <<>>, NoRead)
       ELSE LET w == write_validators(store, EmptyMap, io = 2)
            IN Outcome(w.store, [OkResp EXCEPT !.updates = ValidatorUpdates(rv.validators)],
                       <<w.write>>, <<>>, NoRead)

\* variant of end_block: validators reported with power 0 are dropped
\* from the stored set
end_block_prune(store, io) ==
    LET rv == read_validators(store, io = 1)
    IN IF rv.status = "panic" THEN Outcome(store, PanicResp, <<>>, <<>>, NoRead)
       ELSE LET v == rv.validators
                kept == [k \in {x \in DOMAIN v : v[x] # U64Of(0)} |-> v[k]]
                w == write_validators(store, kept, FALSE)
            IN Outcome(w.store, [OkResp EXCEPT !.updates = ValidatorUpdates(v)],
                       <<w.write>>, <<>>, NoRead)

end_block(store, io) ==
    LET rv == read_validators(store, io = 1)
    IN IF rv.status = "panic" THEN Outcome(store, PanicResp, <<>>, <<>>, NoRead)
       ELSE Outcome(store, [OkResp EXCEPT !.updates = ValidatorUpdates(rv.validators)],
                    <<>>, <<>>, NoRead)

(***************************************************************************)
(* The node: one store, driven by the consensus engine one call at a time. *)
(* InitChain comes at most once; the other calls come in any order.        *)
(***************************************************************************)
VARIABLES
    store,      \* the key-value store
    call,       \* the latest lifecycle call and its request
    resp,       \* its response
    writes,     \* the puts the adapter made during it
    engine,     \* the engine invocations made during it
    read,       \* the height read_height returned during it
    pre,        \* the adapter's two entries as they were when it started
    prev,       \* the call before it: its genesis list, its validator updates
    begun,      \* header height of the latest BeginBlock that stored it
    genesis     \* InitChain has been called

vars == <<store, call, resp, writes, engine, read, pre, prev, begun, genesis>>

Ledger(st) == [height |-> st["height"], validators |-> st["validators"]]

Call(op, tx, validators, height) ==
    [op |-> op, tx |-> tx, validators |-> validators, height |-> height]

NoCall == Call("none", <<>>, <<>>, I64Of(0))
NoResp == [status |-> "none", data |-> <<>>, updates |-> <<>>]
NoBegun == [some |-> FALSE, val |-> I64Of(0)]

\* ABCIStateMachine::new(App, store) on a fresh database
Init ==
    /\ store = EmptyStore
    /\ call = NoCall
    /\ resp = NoResp
    /\ writes = <<>>
    /\ engine = <<>>
    /\ read = NoRead
    /\ pre = Ledger(EmptyStore)
    /\ prev = [op |-> "none", validators |-> <<>>, updates |-> <<>>]
    /\ begun = NoBegun
    /\ genesis = FALSE

\* a panic ends the process
Alive == resp.status # "panic"

Step(c, out) ==
    /\ Alive
    /\ store' = out.store
    /\ call' = c
    /\ resp' = out.resp
    /\ writes' = out.writes
    /\ engine' = out.engine
    /\ read' = out.read
    /\ pre' = Ledger(store)
    /\ prev' = [op |-> IF call.op \in {"InitChain", "EndBlock"} THEN call.op ELSE "other",
                validators |-> call.validators, updates |-> resp.updates]
    /\ begun' = IF c.op = "BeginBlock" /\ out.writes # <<>> /\ out.writes[1].ok
                THEN [some |-> TRUE, val |-> c.height]
                ELSE begun
    /\ genesis' = (genesis \/ c.op = "InitChain")

\* the store operations of a call that fail: none
NoFault == {0}

\* what the engine does matters only to a call that reaches it
EngineOn(raw) ==
    IF DecodeTx(raw).ok THEN EngineChoices
    ELSE {[ok |-> TRUE, vmut |-> NoMut, put |-> FALSE]}

\* the protocol makes this call once, at genesis
InitChain ==
    /\ ~genesis
    /\ \E l \in GenesisLists, e \in InitializeChoices, io \in NoFault :
        Step(Call("InitChain", <<>>, l, I64Of(0)), init_chain(store, l, e, io))

CheckTx ==
    \E raw \in RawTxs, io \in NoFault : \E e \in EngineOn(raw) :
        Step(Call("CheckTx", raw, <<>>, I64Of(0)), check_tx(store, raw, e, io))

DeliverTx ==
    \E raw \in RawTxs, io \in NoFault : \E e \in EngineOn(raw) :
        Step(Call("DeliverTx", raw, <<>>, I64Of(0)), deliver_tx(store, raw, e, io))

BeginBlock ==
    \E h \in HeaderHeights, e \in EngineChoices, io \in NoFault :
        Step(Call("BeginBlock", <<>>, <<>>, h), begin_block(store, [height |-> h], e, io))

EndBlock ==
    \E io \in NoFault :
        Step(Call("EndBlock", <<>>, <<>>, I64Of(0)), end_block(store, io))

Next == InitChain \/ CheckTx \/ DeliverTx \/ BeginBlock \/ EndBlock

Spec == Init /\ [][Next]_vars

(***************************************************************************)
(* The same node, offered validator sets that reach the ends of the 64-bit *)
(* range: keys of length 0, 1 and 2, genesis powers down to i64::MIN and   *)
(* up to i64::MAX, engine powers of 2^63 and more.  One height and one     *)
(* transaction are enough here.                                            *)
(***************************************************************************)
WidePubKeys == {<<>>, <<255>>, <<1, 2>>}

I64Max == [neg |-> FALSE, mag |-> <<LimbBase \div 2 - 1, LimbBase - 1, LimbBase - 1, LimbBase - 1>>]
I64Min == [neg |-> TRUE, mag |-> <<LimbBase \div 2, 0, 0, 0>>]

WideGenesisPowers == {I64Of(0), I64Of(256), I64Max, I64Minus(1), I64Min}

\* 2^63, and a word whose eight bytes are all different
WideEnginePowers == {U64Of(1), <<LimbBase \div 2, 0, 0, 0>>, <<258, 772, 1286, 1800>>}

WideGenesisLists == SeqsUpTo([pub_key : WidePubKeys, power : WideGenesisPowers], 2)

\* the engine changes the power of one validator, or of none
WideEngineChoices ==
    [ok : BOOLEAN,
     vmut : {NoMut} \cup {SetMut(<<255>>, p) : p \in WideEnginePowers},
     put : {FALSE}]

QuietChoices == [ok : BOOLEAN, vmut : {NoMut}, put : {FALSE}]

InitChainWide ==
    /\ ~genesis
    /\ \E l \in WideGenesisLists, e \in QuietChoices :
        Step(Call("InitChain", <<>>, l, I64Of(0)), init_chain(store, l, e, 0))

CheckTxQuiet ==
    \E e \in QuietChoices :
        Step(Call("CheckTx", <<123, 125>>, <<>>, I64Of(0)),
             check_tx(store, <<123, 125>>, e, 0))

DeliverTxWide ==
    \E e \in WideEngineChoices :
        Step(Call("DeliverTx", <<123, 125>>, <<>>, I64Of(0)),
             deliver_tx(store, <<123, 125>>, e, 0))

BeginBlockQuiet ==
    \E e \in QuietChoices :
        Step(Call("BeginBlock", <<>>, <<>>, I64Of(1)),
             begin_block(store, [height |-> I64Of(1)], e, 0))

NextPowers == InitChainWide \/ CheckTxQuiet \/ DeliverTxWide \/ BeginBlockQuiet \/ EndBlock

SpecPowers == Init /\ [][NextPowers]_vars

(***************************************************************************)
(* The same node, offered header heights over the whole i64 range; the     *)
(* engine leaves the validator set alone.                                  *)
(***************************************************************************)
\* 0, 1, 256, 2^32, a word of eight different bytes, i64::MAX, -1, -256,
\* i64::MIN
WideHeaderHeights ==
    {I64Of(0), I64Of(1), I64Of(256),
     [neg |-> FALSE, mag |-> <<0, 1, 0, 0>>],
     [neg |-> FALSE, mag |-> <<258, 772, 1286, 1800>>],
     I64Max, I64Minus(1), I64Minus(256), I64Min}

DeliverTxQuiet ==
    \E e \in QuietChoices :
        Step(Call("DeliverTx", <<123, 125>>, <<>>, I64Of(0)),
             deliver_tx(store, <<123, 125>>, e, 0))

BeginBlockWide ==
    \E h \in WideHeaderHeights, e \in QuietChoices :
        Step(Call("BeginBlock", <<>>, <<>>, h), begin_block(store, [height |-> h], e, 0))

NextHeights == InitChain \/ CheckTxQuiet \/ DeliverTxQuiet \/ BeginBlockWide \/ EndBlock

SpecHeights == Init /\ [][NextHeights]_vars

(***************************************************************************)
(* The same node, started on a store that already has contents: start()    *)
(* opens the database it finds on disk, and nothing in the adapter checks  *)
(* what the two ledger keys hold before the first callback reads them.     *)
(***************************************************************************)
\* "height" on disk: absent, empty, one byte short, well-formed, one byte long
OpenedHeights ==
    {None, Some(<<>>), Some(<<0, 0, 0, 0, 0, 0, 1>>),
     Some(<<0, 0, 0, 0, 0, 0, 0, 1>>), Some(<<0, 0, 0, 0, 0, 0, 0, 1, 0>>)}

\* "validators" on disk: absent, the empty set, one validator, a count
\* with no entries behind it, a truncated count
OpenedValidators ==
    {None, Some(Serialize(EmptyMap)),
     Some(Serialize(MapInsert(EmptyMap, <<2>>, U64Of(10)))),
     Some(<<1, 0, 0, 0, 0, 0, 0, 0>>), Some(<<1>>)}

OpenedStores ==
    {[k \in StoreKeys |-> IF k = "height" THEN h
                          ELSE IF k = "validators" THEN v ELSE None] :
        h \in OpenedHeights, v \in OpenedValidators}

InitOpened ==
    /\ store \in OpenedStores /\ call = NoCall /\ resp = NoResp /\ writes = <<>>
    /\ engine = <<>> /\ read = NoRead /\ pre = Ledger(store)
    /\ prev = [op |-> "none", validators |-> <<>>, updates |-> <<>>]
    /\ begun = NoBegun /\ genesis = FALSE

\* a truncated transaction and a whole one
OpenedTxs == {<<123>>, <<123, 125>>}

InitChainOpened ==
    /\ ~genesis
    /\ \E l \in SeqsUpTo(GenesisEntries, 1), e \in QuietChoices :
        Step(Call("InitChain", <<>>, l, I64Of(0)), init_chain(store, l, e, 0))

CheckTxOpened ==
    \E raw \in OpenedTxs, e \in QuietChoices :
        Step(Call("CheckTx", raw, <<>>, I64Of(0)), check_tx(store, raw, e, 0))

DeliverTxOpened ==
    \E raw \in OpenedTxs, e \in QuietChoices :
        Step(Call("DeliverTx", raw, <<>>, I64Of(0)), deliver_tx(store, raw, e, 0))

NextOpened ==
    InitChainOpened \/ CheckTxOpened \/ DeliverTxOpened \/ BeginBlockQuiet \/ EndBlock

SpecOpened == InitOpened /\ [][NextOpened]_vars

(***************************************************************************)
(* The same node on a store whose operations can fail: every get and put   *)
(* of the adapter returns a Result, and `io` picks the one operation of a  *)
(* call that returns Err (0: none).                                        *)
(***************************************************************************)
\* init_chain makes one store operation, end_block one, the others three
InitChainFaults == 0..1
TxFaults == 0..3
BeginBlockFaults == 0..3
EndBlockFaults == 0..1

InitChainFaulty ==
    /\ ~genesis
    /\ \E l \in GenesisLists, e \in InitializeChoices, io \in InitChainFaults :
        Step(Call("InitChain", <<>>, l, I64Of(0)), init_chain(store, l, e, io))

CheckTxFaulty ==
    \E raw \in OpenedTxs, e \in QuietChoices, io \in TxFaults :
        Step(Call("CheckTx", raw, <<>>, I64Of(0)), check_tx(store, raw, e, io))

DeliverTxFaulty ==
    \E raw \in OpenedTxs, e \in QuietChoices, io \in TxFaults :
        Step(Call("DeliverTx", raw, <<>>, I64Of(0)), deliver_tx(store, raw, e, io))

BeginBlockFaulty ==
    \E e \in QuietChoices, io \in BeginBlockFaults :
        Step(Call("BeginBlock", <<>>, <<>>, I64Of(1)),
             begin_block(store, [height |-> I64Of(1)], e, io))

EndBlockFaulty ==
    \E io \in EndBlockFaults :
        Step(Call("EndBlock", <<>>, <<>>, I64Of(0)), end_block(store, io))

NextFaulty ==
    InitChainFaulty \/ CheckTxFaulty \/ DeliverTxFaulty \/ BeginBlockFaulty \/ EndBlockFaulty

SpecFaulty == Init /\ [][NextFaulty]_vars

(***************************************************************************)
(* Properties.                                                             *)
(***************************************************************************)
IsTxCall(c) == c.op \in {"CheckTx", "DeliverTx"}

Failed(r) == r.status \in {"err", "panic"}

\* both ledger entries are present and well-formed
WellFormed(l) ==
    /\ l.validators.some
    /\ Deserialize(l.validators.val).ok
    /\ l.height.some
    /\ Len(l.height.val) = 8

\* the number a present, 8-byte height entry holds
HeightOf(entry) == FromBeBytes(entry.val)

\* C1: on a store whose validators and height entries are present and
\* well-formed, a CheckTx or DeliverTx whose bytes do not decode fails,
\* does not invoke the engine, and leaves both entries as they were.
C1_UndecodableRejected ==
    (IsTxCall(call) /\ ~DecodeTx(call.tx).ok /\ WellFormed(pre))
        => /\ Failed(resp)
           /\ engine = <<>>
           /\ Ledger(store) = pre

C1_Witness ==
    /\ call.op = "CheckTx"
    /\ call.tx = <<125, 123>>
    /\ WellFormed(pre)
    /\ resp.status = "err"
    /\ DOMAIN Deserialize(store["validators"].val).map # {}

\* C2: a DeliverTx whose transaction decodes and whose engine run succeeds
\* returns an accept response with empty payload, and the "validators"
\* entry afterwards is the set read at the start of the call as the engine
\* left it after the run.
C2_DeliverPersistsEngineChange ==
    (call.op = "DeliverTx" /\ DecodeTx(call.tx).ok /\ engine # <<>> /\ engine[1].ok)
        => /\ resp.status = "ok"
           /\ resp.data = <<>>
           /\ pre.validators.some
           /\ engine[1].validators = Deserialize(pre.validators.val).map
           /\ store["validators"].some
           /\ Deserialize(store["validators"].val) = [ok |-> TRUE, map |-> engine[1].out]

C2_Witness ==
    /\ call.op = "DeliverTx"
    /\ resp.status = "ok"
    /\ engine # <<>>
    /\ engine[1].ok
    /\ engine[1].out # engine[1].validators
    /\ store["validators"] # pre.validators

\* C3: once BeginBlock with header height H has completed, the "height"
\* entry holds H, and every CheckTx and DeliverTx until the next BeginBlock
\* reads back H and hands H to the engine as the height.
C3_HeightReadBack ==
    /\ (call.op = "BeginBlock" /\ resp.status = "ok")
          => /\ store["height"].some
             /\ Len(store["height"].val) = 8
             /\ HeightOf(store["height"]) = AsU64(call.height)
    /\ (IsTxCall(call) /\ begun.some)
          => /\ read = [some |-> TRUE, val |-> AsU64(begun.val)]
             /\ \A i \in 1..Len(engine) : engine[i].height = AsU64(begun.val)

C3_Witness ==
    /\ call.op = "CheckTx"
    /\ begun = [some |-> TRUE, val |-> I64Of(1)]
    /\ read = [some |-> TRUE, val |-> U64Of(1)]
    /\ engine # <<>>
    /\ engine[1].height = U64Of(1)

\* the power of the last entry of the genesis list l that has key k
LastPower(l, k) ==
    LET last == CHOOSE i \in 1..Len(l) :
                    /\ l[i].pub_key = k
                    /\ \A j \in (i + 1)..Len(l) : l[j].pub_key # k
    IN l[last].power

GenesisKeys(l) == {l[i].pub_key : i \in 1..Len(l)}

\* C4: InitChain(L) followed immediately by EndBlock returns one update per
\* distinct public key of L, carrying the power of the last entry of L with
\* that key, and no other update.
C4_GenesisThenEndBlock ==
    (call.op = "EndBlock" /\ prev.op = "InitChain")
        => LET l == prev.validators
               u == resp.updates
           IN /\ resp.status = "ok"
              /\ Len(u) = Cardinality(GenesisKeys(l))
              /\ \A k \in GenesisKeys(l) :
                    \E i \in 1..Len(u) :
                       /\ u[i].pub_key.data = k
                       /\ u[i].power = LastPower(l, k)
              /\ \A i \in 1..Len(u) : u[i].pub_key.data \in GenesisKeys(l)

C4_Witness ==
    /\ call.op = "EndBlock"
    /\ prev.op = "InitChain"
    /\ prev.validators = <<[pub_key |-> <<2>>, power |-> I64Of(10)],
                           [pub_key |-> <<2>>, power |-> I64Minus(1)]>>
    /\ Len(resp.updates) = 1
    /\ resp.updates[1].power = I64Minus(1)

\* C5: two EndBlock calls with no call between them return the same list
\* of validator updates, in the same order.
C5_EndBlockRepeatable ==
    (call.op = "EndBlock" /\ prev.op = "EndBlock")
        => /\ resp.status = "ok"
           /\ resp.updates = prev.updates

C5_Witness ==
    /\ call.op = "EndBlock"
    /\ prev.op = "EndBlock"
    /\ Len(resp.updates) = 2
    /\ resp.updates = prev.updates

\* C6: EndBlock returns exactly one update for each entry of the stored
\* validator set and none for any other key, each carrying the entry's
\* public key, its stored power (the same number) and the key-type tag,
\* zero powers included; the list is ordered by public-key bytes.
C6_OneUpdatePerEntry ==
    (call.op = "EndBlock" /\ resp.status = "ok")
        => LET v == Deserialize(pre.validators.val).map
               u == resp.updates
           IN /\ Len(u) = Cardinality(DOMAIN v)
              /\ \A k \in DOMAIN v :
                    \E i \in 1..Len(u) :
                       /\ u[i].pub_key = [data |-> k, type |-> "secp256k1"]
                       /\ ~u[i].power.neg
                       /\ u[i].power.mag = v[k]
              /\ \A i \in 1..Len(u) : u[i].pub_key.data \in DOMAIN v
              /\ \A i, j \in 1..Len(u) :
                    i < j => BytesLess(u[i].pub_key.data, u[j].pub_key.data)

\* the part of C6 that does not depend on the sign of the power: one
\* update per entry, with the entry's 64 bits, tagged, in key order
EndBlockListsStoredSet ==
    (call.op = "EndBlock" /\ resp.status = "ok")
        => LET v == Deserialize(pre.validators.val).map
               u == resp.updates
           IN /\ Len(u) = Cardinality(DOMAIN v)
              /\ \A k \in DOMAIN v :
                    \E i \in 1..Len(u) :
                       /\ u[i].pub_key = [data |-> k, type |-> "secp256k1"]
                       /\ AsU64(u[i].power) = v[k]
              /\ \A i, j \in 1..Len(u) :
                    i < j => BytesLess(u[i].pub_key.data, u[j].pub_key.data)

HeightPresent(entry) == entry.some /\ Len(entry.val) = 8

\* the "height" entry did not get smaller during the latest call
HeightNotLowered ==
    HeightPresent(pre.height)
        => /\ HeightPresent(store["height"])
           /\ ~U64Less(HeightOf(store["height"]), HeightOf(pre.height))

\* C7 as stated: no lifecycle call ever leaves the "height" entry smaller
\* than it found it.
C7_HeightNeverDecreases == HeightNotLowered

\* C7, amended: the "height" entry gets smaller only in a BeginBlock whose
\* header height, as an unsigned 64-bit number, is below the stored one;
\* any other call leaves it at least as large as it was.
C7_HeightDecreasesOnlyByLowerHeader ==
    ~(/\ call.op = "BeginBlock"
      /\ HeightPresent(pre.height)
      /\ U64Less(AsU64(call.height), HeightOf(pre.height)))
        => HeightNotLowered

C7_Witness ==
    /\ call.op = "BeginBlock"
    /\ resp.status = "ok"
    /\ pre.height = Some(<<0, 0, 0, 0, 0, 0, 0, 0>>)
    /\ store["height"] = Some(<<0, 0, 0, 0, 0, 0, 0, 1>>)

HeightWrites == {i \in 1..Len(writes) : writes[i].key = "height"}

\* C8: the adapter puts the "height" key only in BeginBlock, once per
\* BeginBlock call; InitChain, CheckTx, DeliverTx and EndBlock never put
\* it, whether they succeed or fail.
C8_HeightWrittenOnlyByBeginBlock ==
    /\ call.op \in {"InitChain", "CheckTx", "DeliverTx", "EndBlock"}
          => /\ HeightWrites = {}
             /\ store["height"] = pre.height
    /\ call.op = "BeginBlock" => Cardinality(HeightWrites) = 1

C8_Witness ==
    /\ call.op = "DeliverTx"
    /\ resp.status = "ok"
    /\ Len(writes) = 1
    /\ writes[1].key = "validators"
    /\ store["height"].some

\* C9: when the engine's run fails in CheckTx or DeliverTx the call fails
\* and the adapter puts nothing: both ledger entries are as the engine left
\* them, and what the engine did to the in-memory validator set is lost.
C9_FailedRunWritesNothing ==
    (IsTxCall(call) /\ engine # <<>> /\ ~engine[Len(engine)].ok)
        => /\ resp.status = "err"
           /\ writes = <<>>
           /\ Ledger(store) = pre

C9_Witness ==
    /\ call.op = "CheckTx"
    /\ engine # <<>>
    /\ ~engine[1].ok
    /\ engine[1].out # engine[1].validators
    /\ store["engine"] = Some(<<1>>)
    /\ resp.status = "err"
    /\ Ledger(store) = pre

\* the successful puts of the "validators" key in the latest call
ValidatorsWrites == {i \in 1..Len(writes) : writes[i].key = "validators" /\ writes[i].ok}

\* the validator set the latest call handed to write_validators
WrittenSet ==
    IF call.op = "InitChain" THEN GenesisMap(call.validators, EmptyMap)
    ELSE engine[Len(engine)].out

\* the keys of the serialized entries of a validator set (the bytes after
\* the count), in the order they are stored
RECURSIVE StoredKeyList(_, _)
StoredKeyList(bytes, n) ==
    IF n = 0 THEN <<>>
    ELSE LET klen == U64ToNat(FromLeBytes(SubSeq(bytes, 1, 8)))
         IN <<SubSeq(bytes, 9, 8 + klen)>>
                \o StoredKeyList(SubSeq(bytes, 17 + klen, Len(bytes)), n - 1)

\* C12: whatever validator set a call writes, read_validators on the
\* resulting store returns that very set (no entry lost, added or changed),
\* and the stored bytes are the canonical ones of the set: its entries once
\* each in ascending key order, so that equal sets are stored as equal
\* bytes.
C12_ValidatorsRoundTrip ==
    ValidatorsWrites # {}
        => /\ read_validators(store, FALSE) = [status |-> "ok", validators |-> WrittenSet]
           /\ LET bytes == store["validators"].val
                  keys == StoredKeyList(SubSeq(bytes, 9, Len(bytes)),
                                       Cardinality(DOMAIN WrittenSet))
              IN /\ Len(keys) = Cardinality(DOMAIN WrittenSet)
                 /\ \A i, j \in 1..Len(keys) : i < j => BytesLess(keys[i], keys[j])
                 /\ bytes = Serialize(WrittenSet)

\* a set of two validators, one with the empty key and one whose power the
\* engine has just set to 2^63, is written and read back
C12_Witness ==
    /\ call.op = "DeliverTx"
    /\ resp.status = "ok"
    /\ ValidatorsWrites # {}
    /\ DOMAIN WrittenSet = {<<>>, <<255>>}
    /\ WrittenSet[<<255>>] = <<LimbBase \div 2, 0, 0, 0>>
    /\ engine[1].validators # WrittenSet
    /\ read_validators(store, FALSE).validators = WrittenSet

\* a + b mod 2^64, limb by limb with carry
U64Sum(a, b) ==
    LET s4 == a[4] + b[4]
        s3 == a[3] + b[3] + s4 \div LimbBase
        s2 == a[2] + b[2] + s3 \div LimbBase
        s1 == a[1] + b[1] + s2 \div LimbBase
    IN <<s1 % LimbBase, s2 % LimbBase, s3 % LimbBase, s4 % LimbBase>>

\* the 64-bit word whose bytes, most significant first, are b
WordOfBytes(b) == [k \in 1..4 |-> b[2 * k - 1] * 256 + b[2 * k]]

\* the word w is the header height h modulo 2^64
IsHeightMod64(w, h) ==
    IF h.neg THEN U64Sum(w, h.mag) = <<0, 0, 0, 0>> ELSE w = h.mag

\* C13: for every 64-bit header height h, BeginBlock leaves exactly eight
\* bytes under "height", the big-endian bytes of h modulo 2^64; read_height
\* on that store returns that word, and it is the height BeginBlock handed
\* to the engine -- also when h is negative.
C13_HeightCodec ==
    call.op = "BeginBlock"
        => /\ store["height"].some
           /\ Len(store["height"].val) = 8
           /\ \A i \in 1..8 : store["height"].val[i] \in 0..255
           /\ IsHeightMod64(WordOfBytes(store["height"].val), call.height)
           /\ read_height(store, FALSE) =
                 [status |-> "ok", height |-> WordOfBytes(store["height"].val)]
           /\ \A i \in 1..Len(engine) :
                 engine[i].height = read_height(store, FALSE).height

\* BeginBlock at i64::MIN: the engine is run at 2^63, which is what is stored
C13_Witness ==
    /\ call.op = "BeginBlock"
    /\ call.height = I64Min
    /\ resp.status = "ok"
    /\ store["height"] = Some(<<128, 0, 0, 0, 0, 0, 0, 0>>)
    /\ engine # <<>>
    /\ engine[1].height = <<LimbBase \div 2, 0, 0, 0>>
    /\ read_height(store, FALSE).height = <<LimbBase \div 2, 0, 0, 0>>

\* C14: BeginBlock puts the height before it runs the engine and puts the
\* validator set only after the run has succeeded.  When the run fails at
\* header height H the call fails, the only put the adapter made is the one
\* of "height", the "validators" entry is the one the call found, and the
\* "height" entry holds H.
C14_HeightBeforeRun ==
    call.op = "BeginBlock"
        => /\ engine # <<>>
                => /\ writes # <<>>
                   /\ writes[1].key = "height"
                   /\ writes[1].ok
           /\ (\E i \in 1..Len(writes) : writes[i].key = "validators")
                => /\ engine # <<>>
                   /\ engine[Len(engine)].ok
           /\ (engine # <<>> /\ ~engine[Len(engine)].ok)
                => /\ resp.status = "err"
                   /\ Len(writes) = 1
                   /\ store["validators"] = pre.validators
                   /\ HeightPresent(store["height"])
                   /\ HeightOf(store["height"]) = AsU64(call.height)

\* the run fails in BeginBlock at height 1 on a store that held height 0,
\* after the engine has changed the in-memory validator set
C14_Witness ==
    /\ call.op = "BeginBlock"
    /\ call.height = I64Of(1)
    /\ engine # <<>>
    /\ ~engine[1].ok
    /\ engine[1].out # engine[1].validators
    /\ resp.status = "err"
    /\ pre.height = Some(<<0, 0, 0, 0, 0, 0, 0, 0>>)
    /\ store["height"] = Some(<<0, 0, 0, 0, 0, 0, 0, 1>>)
    /\ store["validators"] = pre.validators

\* C15: a CheckTx or DeliverTx made while the "height" entry is absent or
\* is not exactly 8 bytes long fails, whether or not the transaction
\* decodes: no accept response, no engine invocation, no put, and both
\* ledger entries as they were.
C15_NoHeightNoTx ==
    (IsTxCall(call) /\ ~HeightPresent(pre.height))
        => /\ resp.status # "ok"
           /\ Failed(resp)
           /\ engine = <<>>
           /\ writes = <<>>
           /\ Ledger(store) = pre

\* a transaction that decodes, delivered on a store with a well-formed
\* validator set and a 7-byte height
C15_Witness ==
    /\ call.op = "DeliverTx"
    /\ DecodeTx(call.tx).ok
    /\ pre.validators.some
    /\ Deserialize(pre.validators.val).ok
    /\ pre.height.some
    /\ Len(pre.height.val) = 7
    /\ Failed(resp)
    /\ engine = <<>>

\* the calls that begin by reading the validator set
ReaderOps == {"CheckTx", "DeliverTx", "BeginBlock", "EndBlock"}

\* read_validators succeeds on this entry
ValidatorsReadable(entry) == entry.some /\ Deserialize(entry.val).ok

\* C16: on a node started on an empty store, once InitChain has written the
\* validator set the "validators" entry stays present and deserializable:
\* every later CheckTx, DeliverTx, BeginBlock and EndBlock finds it so, and
\* the only fatal failure left to those calls is the height read of a
\* transaction call; before InitChain each of them finds the entry absent
\* and dies in read_validators.
C16_ValidatorsNeverDeleted ==
    /\ genesis => ValidatorsReadable(store["validators"])
    /\ call.op \in ReaderOps
          => /\ genesis <=> ValidatorsReadable(pre.validators)
             /\ genesis <=> read_validators(store, FALSE).status = "ok"
             /\ (genesis /\ resp.status = "panic")
                   => (IsTxCall(call) /\ ~HeightPresent(pre.height))
             /\ ~genesis => (resp.status = "panic" /\ ~pre.validators.some)

\* after InitChain the engine asks for the removal of a validator (power
\* 0) in a DeliverTx; the set is written back and the next call reads it
C16_Witness ==
    /\ genesis
    /\ call.op = "DeliverTx"
    /\ resp.status = "ok"
    /\ engine[1].out # engine[1].validators
    /\ \E k \in DOMAIN engine[1].out : engine[1].out[k] = U64Of(0)
    /\ read_validators(store, FALSE) = [status |-> "ok", validators |-> engine[1].out]

\* the genesis power x and the stored power u are the same number
SameNumber(x, u) == ~x.neg /\ x.mag = u

\* C17: voting power is one non-negative 64-bit number end to end.  The set
\* InitChain stores holds, for each key of the genesis list, the number the
\* list gave it, and every update EndBlock emits carries a power that is
\* not negative and is the number stored for its key.
C17_PowerSameNumber ==
    /\ (call.op = "InitChain" /\ ValidatorsWrites # {})
          => LET v == Deserialize(store["validators"].val).map
             IN \A k \in DOMAIN v : SameNumber(LastPower(call.validators, k), v[k])
    /\ (call.op = "EndBlock" /\ resp.status = "ok")
          => LET v == Deserialize(pre.validators.val).map
                 u == resp.updates
             IN \A i \in 1..Len(u) :
                   /\ ~u[i].power.neg
                   /\ u[i].power.mag = v[u[i].pub_key.data]

\* what CheckTx and DeliverTx do on the current store with bytes raw and
\* engine behaviour e
AsCheckTx(raw, e) == check_tx(store, raw, e, 0)
AsDeliverTx(raw, e) == deliver_tx(store, raw, e, 0)

\* C18: on every store the node reaches, for the same transaction bytes and
\* the same engine behaviour, CheckTx and DeliverTx end alike (both accept,
\* both fail or both die), invoke the engine alike (same action, validator
\* set and height, or not at all), make the same puts and leave the same
\* "validators" and "height" entries.
C18_CheckTxIsDeliverTx ==
    \A raw \in RawTxs, e \in EngineChoices :
        /\ AsCheckTx(raw, e).resp.status = AsDeliverTx(raw, e).resp.status
        /\ AsCheckTx(raw, e).engine = AsDeliverTx(raw, e).engine
        /\ AsCheckTx(raw, e).writes = AsDeliverTx(raw, e).writes
        /\ Ledger(AsCheckTx(raw, e).store) = Ledger(AsDeliverTx(raw, e).store)

\* a CheckTx has been accepted, and on the store it left a further
\* transaction in which the engine changes the set is accepted by both
\* calls, which both rewrite the "validators" entry
C18_Witness ==
    /\ call.op = "CheckTx"
    /\ resp.status = "ok"
    /\ \E e \in EngineChoices :
          /\ AsCheckTx(<<123, 125>>, e).resp.status = "ok"
          /\ AsDeliverTx(<<123, 125>>, e).resp.status = "ok"
          /\ AsCheckTx(<<123, 125>>, e).store["validators"] # store["validators"]
          /\ AsDeliverTx(<<123, 125>>, e).store["validators"] # store["validators"]

\* C19: EndBlock is read-only: whatever the store holds, an EndBlock call
\* leaves every entry of it as it was ("validators", "height" and the
\* engine's), puts nothing and does not invoke the engine.
C19_EndBlockReadOnly ==
    [][call'.op = "EndBlock" => (store' = store /\ writes' = <<>> /\ engine' = <<>>)]_vars

\* an EndBlock that reported two validators, one of them with power 0, on
\* a store that also holds a height and an entry of the engine
C19_Witness ==
    /\ call.op = "EndBlock"
    /\ resp.status = "ok"
    /\ Len(resp.updates) = 2
    /\ \E i \in 1..2 : resp.updates[i].power = I64Of(0)
    /\ store["engine"].some
    /\ store["height"].some
    /\ Ledger(store) = pre
    /\ writes = <<>>

\* C20: InitChain writes the genesis set before it invokes the engine's
\* initialize.  initialize is invoked only after the put of "validators"
\* has succeeded; when initialize fails the call fails, and the
\* "validators" entry holds the genesis set (for each key of the list the
\* power of its last entry, as 64 bits); when the put fails the call fails,
\* initialize is not invoked and the entry is as it was.
C20_GenesisWrittenBeforeInitialize ==
    call.op = "InitChain"
        => /\ Len(writes) = 1
           /\ writes[1].key = "validators"
           /\ engine # <<>> => (writes[1].ok /\ engine[1].fn = "initialize")
           /\ (engine # <<>> /\ ~engine[1].ok)
                => /\ resp.status = "err"
                   /\ store["validators"].some
                   /\ LET d == Deserialize(store["validators"].val)
                      IN /\ d.ok
                         /\ DOMAIN d.map = GenesisKeys(call.validators)
                         /\ \A k \in DOMAIN d.map :
                               d.map[k] = AsU64(LastPower(call.validators, k))
           /\ ~writes[1].ok
                => /\ resp.status = "err"
                   /\ engine = <<>>
                   /\ store["validators"] = pre.validators

\* initialize fails after it has put its own entry; the genesis set of two
\* validators is in the store all the same
C20_Witness ==
    /\ call.op = "InitChain"
    /\ resp.status = "err"
    /\ engine # <<>>
    /\ ~engine[1].ok
    /\ store["engine"].some
    /\ writes[1].ok
    /\ Cardinality(GenesisKeys(call.validators)) = 2
    /\ store["validators"] = Some(writes[1].value)
    /\ Cardinality(DOMAIN Deserialize(store["validators"].val).map) = 2

====
